---- MODULE Spec2Model ----
(***************************************************************************)
(* Model of the two batch scripts of notebooks-01:                         *)
(*   merge_claims_policies.py    (script "merge")                          *)
(*   create_combined_dataset.py  (script "combined")                       *)
(* Each run loads a claims table and a policy table from a SQLite store,   *)
(* left-joins them with pandas.DataFrame.merge, writes the result to a     *)
(* table and to a CSV file and prints summary statistics.                  *)
(*                                                                         *)
(* A relation (DataFrame / table) is a record                              *)
(*   [cols |-> sequence of column names, rows |-> sequence of rows]        *)
(* where a row is a function from the column names to cell values.         *)
(***************************************************************************)
EXTENDS Integers, Sequences, FiniteSets, TLC

\* ------------------------------------------------------------------ bounds
MaxClaims == 2
MaxPolicies == 2
MaxRuns == 2

\* ------------------------------------------------------------- cell values
NULL == "<NULL>"

ClaimProviders == {NULL, "Aetna", "Cigna"}
\* <<provider_name, provider_id>> of the policy rows drawn: a complete row, a
\* row without provider_id, a row without provider_name.
PolicyKeys == {<<"Aetna", "PRV001">>, <<"Aetna", NULL>>, <<NULL, "PRV001">>}

\* ------------------------------------------------------------------ schema
ClaimCols == <<"claim_id", "medical_condition", "insurance_provider", "billing_amount">>
PolicyColsFull == <<"provider_name", "provider_id", "plan_type", "data_source">>
PolicyColsShort == <<"provider_name", "provider_id", "plan_type">>

\* The requested column list of create_combined_dataset.py, restricted to the
\* columns of the modelled schema, in the order of the source.
final_columns ==
    <<"claim_id", "medical_condition", "insurance_provider", "billing_amount",
      "provider_id", "plan_type", "data_source">>

\* Columns the scripts index after the table write, in statement order.
IndexColumns(s) ==
    IF s = "merge"
    THEN <<"insurance_provider", "medical_condition", "plan_type", "billing_amount">>
    ELSE <<"insurance_provider", "policy_id", "plan_type", "medical_condition",
           "billing_amount">>

\* Table and file names of each script.
ClaimsTable(s) == IF s = "merge" THEN "healthcare_claims" ELSE "claims_table"
PolicyTable(s) == "policy_table"
OutTable(s) ==
    IF s = "merge" THEN "merged_claims_policies" ELSE "claims_with_policy_rules"
\* merged_claims_policies_<timestamp>.csv is named by the run's timestamp n,
\* claims_with_policy_rules.csv is the fixed name 0.
CsvName(s, n) == IF s = "merge" THEN n ELSE 0

\* ------------------------------------------------------- sequence helpers
Range(s) == {s[i] : i \in 1..Len(s)}

RECURSIVE Flatten(_)
Flatten(ss) == IF ss = <<>> THEN <<>> ELSE Head(ss) \o Flatten(Tail(ss))

SeqsUpTo(S, n) == UNION {[1..k -> S] : k \in 0..n}

\* ------------------------------------------------------------------ inputs
ClaimRow(i, p) ==
    [c \in Range(ClaimCols) |->
        CASE c = "claim_id" -> i
          [] c = "medical_condition" -> "Asthma"
          [] c = "insurance_provider" -> p
          [] OTHER -> 100 * i]

PolicyRow(cols, i, nm, id) ==
    [c \in Range(cols) |->
        CASE c = "provider_name" -> nm
          [] c = "provider_id" -> id
          [] c = "plan_type" -> (IF i % 2 = 1 THEN "HMO" ELSE "PPO")
          [] OTHER -> "synthetic"]

ClaimsRelations ==
    {[cols |-> ClaimCols, rows |-> [i \in DOMAIN ps |-> ClaimRow(i, ps[i])]] :
        ps \in SeqsUpTo(ClaimProviders, MaxClaims)}

PolicyRelations ==
    {[cols |-> cs, rows |-> [i \in DOMAIN ks |-> PolicyRow(cs, i, ks[i][1], ks[i][2])]] :
        cs \in {PolicyColsFull, PolicyColsShort},
        ks \in SeqsUpTo(PolicyKeys, MaxPolicies)}

\* --------------------------------------------------------- pandas operators
\* DataFrame.merge compares join keys by value and, unlike SQL, pairs a null
\* key on the left with a null key on the right.
KeyEq(a, b) == a = b

NullRow(cols) == [c \in Range(cols) |-> NULL]

RowConcat(l, r) ==
    [c \in DOMAIN l \cup DOMAIN r |-> IF c \in DOMAIN l THEN l[c] ELSE r[c]]

RECURSIVE SelectSeq2(_, _, _)
SelectSeq2(rows, lkey, rkey) ==
    IF rows = <<>> THEN <<>>
    ELSE (IF KeyEq(lkey, Head(rows)[rkey]) THEN <<Head(rows)>> ELSE <<>>)
         \o SelectSeq2(Tail(rows), lkey, rkey)

\* The rows a left row produces: one per matching right row, in the right
\* relation's order, or one null-padded row when nothing matches.
LeftRowsInner(l, right, lkey, rkey) ==
    [i \in DOMAIN SelectSeq2(right.rows, l[lkey], rkey) |->
        RowConcat(l, SelectSeq2(right.rows, l[lkey], rkey)[i])]

LeftRows(l, right, lkey, rkey) ==
    IF SelectSeq2(right.rows, l[lkey], rkey) = <<>>
    THEN <<RowConcat(l, NullRow(right.cols))>>
    ELSE LeftRowsInner(l, right, lkey, rkey)

\* claims_df.merge(policy_df, left_on=..., right_on=..., how="left")
Merge(left, right, lkey, rkey) ==
    [cols |-> left.cols \o right.cols,
     rows |-> Flatten([i \in DOMAIN left.rows |->
                          LeftRows(left.rows[i], right, lkey, rkey)])]

\* df[col].isna().sum()
IsnaSum(df, col) == Cardinality({i \in DOMAIN df.rows : df.rows[i][col] = NULL})

\* df[columns]: raises KeyError when a requested column is missing.
MissingColumns(df, columns) == Range(columns) \ Range(df.cols)

Select(df, columns) ==
    [cols |-> columns,
     rows |-> [i \in DOMAIN df.rows |-> [c \in Range(columns) |-> df.rows[i][c]]]]

\* final_df["policy_id"] = final_df["provider_id"]
AddPolicyId(df) ==
    [cols |-> Append(df.cols, "policy_id"),
     rows |-> [i \in DOMAIN df.rows |->
                  RowConcat(df.rows[i], [c \in {"policy_id"} |-> df.rows[i]["provider_id"]])]]

\* ------------------------------------------------------ store and file sinks
\* A store maps the names of the tables that exist to their contents; the
\* output directory maps the names of the files that exist to their contents.
Put(f, k, v) == [x \in DOMAIN f \cup {k} |-> IF x = k THEN v ELSE f[x]]
Drop(f, k) == [x \in DOMAIN f \ {k} |-> f[x]]
Truncated(df) == [cols |-> df.cols, rows |-> <<>>]

\* A faulty variant of ToSql: if_exists="append".
ToSqlAppend(st, name, df) ==
    IF name \in DOMAIN st /\ st[name].cols = df.cols
    THEN Put(st, name, [cols |-> df.cols, rows |-> st[name].rows \o df.rows])
    ELSE Put(st, name, df)

\* df.to_sql(name, conn, if_exists="replace", index=False)
ToSql(st, name, df) == Put(st, name, df)

\* A to_sql that raises may have left the old table, dropped it, or created
\* the new table without rows.
ToSqlFailed(st, name, df) ==
    {st, Drop(st, name), Put(st, name, Truncated(df))}

\* df.to_csv(path, index=False)
ToCsv(fs, name, df) == Put(fs, name, df)

\* A to_csv that raises wrote nothing, or left a file cut short.
ToCsvFailed(fs, name, df) == {fs, Put(fs, name, Truncated(df))}

\* ------------------------------------------------------------ control flow
\* The stage that follows a stage that completed.  merge_claims_policies.py
\* has no projection step: it writes merged_df as it is.
StageAfter(s, stage) ==
    CASE stage = "connect" -> "load_claims"
      [] stage = "load_claims" -> "load_policy"
      [] stage = "load_policy" -> "merge"
      [] stage = "merge" -> (IF s = "merge" THEN "save_table" ELSE "project")
      [] stage = "project" -> "save_table"
      [] stage = "save_table" -> "create_indexes"
      [] stage = "create_indexes" -> "save_csv"
      [] stage = "save_csv" -> "summary"
      [] stage = "summary" -> "close"
      [] OTHER -> "done"

\* Whether an exception raised in a stage is inside a try block of the script.
Caught(s, stage) ==
    IF s = "merge" THEN TRUE
    ELSE stage \notin {"merge", "project"}

\* A faulty variant of OnError: the load handlers lack their return.
OnErrorNoReturn(s, stage) ==
    IF stage \in {"load_claims", "load_policy"} THEN StageAfter(s, stage)
    ELSE IF s = "merge" THEN "done"
    ELSE IF stage \in {"save_csv", "summary"} THEN StageAfter(s, stage)
    ELSE "done"

\* Where control goes after the except clause of a stage: "done" when the
\* clause returns, the next stage when it only prints.
OnError(s, stage) ==
    IF s = "merge" THEN "done"
    ELSE IF stage \in {"save_csv", "summary"} THEN StageAfter(s, stage)
    ELSE "done"

\* merge_claims_policies.py closes the connection in a finally clause.
ClosesInFinally(s) == s = "merge"

\* A faulty variant of HandlerStore: both sinks in one transaction, undone
\* when the file write raises.
HandlerStoreRollback(s, stage, st, st0) == IF stage = "save_csv" THEN st0 ELSE st

\* The store an except clause leaves, given the store st the failed statement
\* left and the store st0 of the start of the run: the clauses print and
\* return, the table write was committed before the file write, and closing
\* the connection undoes nothing.
HandlerStore(s, stage, st, st0) == st

\* ------------------------------------------------------------------- state
VARIABLES
    script,      \* which of the two scripts is run
    run,         \* number of runs started
    pc,          \* the stage about to execute, "idle" or "done"
    store,       \* the SQLite store: table name -> relation
    indexes,     \* indexed columns of the output table
    files,       \* the outputs directory: file name -> relation
    conn,        \* "unbound", "open" or "closed"
    closeErr,    \* conn.close() was evaluated with conn unbound
    claims_df, policy_df, merged_df, final_df,
    reported,    \* the count the merge-quality check printed, -1 before it
    printed,     \* kinds of messages printed in this run
    outcome,     \* "none", "success", "failed" or "crashed"
    done,        \* stages that completed in this run
    failed,      \* stages that raised in this run
    store0, files0,   \* store and files when the run started
    prevOut      \* output table left by the previous run's table write

vars ==
    <<script, run, pc, store, indexes, files, conn, closeErr, claims_df,
      policy_df, merged_df, final_df, reported, printed, outcome, done, failed,
      store0, files0, prevOut>>

Unset == [cols |-> <<>>, rows |-> <<>>]
Stale == [cols |-> <<"claim_id">>, rows |-> <<>>]

Optional(S) == {<<>>} \cup {<<x>> : x \in S}

MkStore(s, cs, ps, os) ==
    [t \in (IF cs = <<>> THEN {} ELSE {ClaimsTable(s)})
           \cup (IF ps = <<>> THEN {} ELSE {PolicyTable(s)})
           \cup (IF os = <<>> THEN {} ELSE {OutTable(s)}) |->
        IF t = ClaimsTable(s) THEN cs[1]
        ELSE IF t = PolicyTable(s) THEN ps[1] ELSE os[1]]

\* The stores a run can find: either input table may be missing, and an
\* output table of an earlier time may already exist.
Stores(s) ==
    {MkStore(s, cs, ps, os) :
        cs \in Optional(ClaimsRelations), ps \in Optional(PolicyRelations),
        os \in Optional({Stale})}

Init ==
    /\ script \in {"merge", "combined"}
    /\ store \in Stores(script)
    /\ run = 0
    /\ pc = "idle"
    /\ indexes = {}
    /\ files = <<>>
    /\ conn = "unbound"
    /\ closeErr = FALSE
    /\ claims_df = Unset /\ policy_df = Unset
    /\ merged_df = Unset /\ final_df = Unset
    /\ reported = -1
    /\ printed = {}
    /\ outcome = "none"
    /\ done = {} /\ failed = {}
    /\ store0 = store /\ files0 = files
    /\ prevOut = <<>>

\* ----------------------------------------------------------------- actions
\* A stage completed: go to the stage that follows it.
Advance(stage) ==
    /\ done' = done \cup {stage}
    /\ pc' = StageAfter(script, stage)
    /\ UNCHANGED <<failed, printed, outcome, conn, closeErr>>

AdvanceKeepStore(stage) == Advance(stage) /\ store' = store

\* A stage raised.  A caught exception prints an error and either returns
\* (ending the run, through the finally clause where there is one) or falls
\* through to the next stage; an uncaught one ends the run with a traceback.
Raise(stage, st) ==
    LET caught == Caught(script, stage)
        nxt == IF caught THEN OnError(script, stage) ELSE "done"
        unbound == ClosesInFinally(script) /\ conn = "unbound"
    IN  /\ failed' = failed \cup {stage}
        /\ store' = HandlerStore(script, stage, st, store0)
        /\ printed' = printed \cup {IF caught THEN "error" ELSE "traceback"}
        /\ pc' = nxt
        /\ done' = done
        /\ IF nxt = "done"
           THEN /\ conn' = IF ClosesInFinally(script) /\ conn = "open"
                           THEN "closed" ELSE conn
                /\ closeErr' = unbound
                /\ outcome' = IF caught /\ ~unbound THEN "failed" ELSE "crashed"
           ELSE UNCHANGED <<conn, closeErr, outcome>>

\* main() is entered.  merge_claims_policies.py returns at once when the
\* database file does not exist (possible only when the store has no table).
StartRun ==
    /\ pc = "idle" \/ pc = "done"
    /\ run < MaxRuns
    /\ run' = run + 1
    /\ store0' = store /\ files0' = files
    /\ prevOut' = IF "save_table" \in done THEN <<store[OutTable(script)]>> ELSE <<>>
    /\ conn' = "unbound" /\ closeErr' = FALSE
    /\ claims_df' = Unset /\ policy_df' = Unset
    /\ merged_df' = Unset /\ final_df' = Unset
    /\ reported' = -1
    /\ done' = {} /\ failed' = {}
    /\ \E exists \in (IF DOMAIN store = {} THEN BOOLEAN ELSE {TRUE}) :
          IF script = "merge" /\ ~exists
          THEN pc' = "done" /\ printed' = {"db_not_found"} /\ outcome' = "failed"
          ELSE pc' = "connect" /\ printed' = {} /\ outcome' = "none"
    /\ UNCHANGED <<script, store, indexes, files>>

\* conn = sqlite3.connect(str(db_path))
Connect ==
    /\ pc = "connect"
    /\ \E ok \in BOOLEAN :
          IF ok
          THEN /\ conn' = "open"
               /\ done' = done \cup {"connect"}
               /\ pc' = StageAfter(script, "connect")
               /\ UNCHANGED <<failed, printed, outcome, closeErr, store>>
          ELSE Raise("connect", store)
    /\ UNCHANGED <<script, run, indexes, files, claims_df, policy_df,
                   merged_df, final_df, reported, store0, files0, prevOut>>

\* claims_df = pd.read_sql_query("SELECT * FROM <claims table>", conn)
LoadClaims ==
    /\ pc = "load_claims"
    /\ IF ClaimsTable(script) \in DOMAIN store
       THEN claims_df' = store[ClaimsTable(script)] /\ AdvanceKeepStore("load_claims")
       ELSE claims_df' = claims_df /\ Raise("load_claims", store)
    /\ UNCHANGED <<script, run, indexes, files, policy_df, merged_df,
                   final_df, reported, store0, files0, prevOut>>

\* policy_df = pd.read_sql_query("SELECT * FROM policy_table", conn)
LoadPolicy ==
    /\ pc = "load_policy"
    /\ IF PolicyTable(script) \in DOMAIN store
       THEN policy_df' = store[PolicyTable(script)] /\ AdvanceKeepStore("load_policy")
       ELSE policy_df' = policy_df /\ Raise("load_policy", store)
    /\ UNCHANGED <<script, run, indexes, files, claims_df, merged_df,
                   final_df, reported, store0, files0, prevOut>>

\* The column whose nulls the merge-quality check counts.
QualityColumn(s) == IF s = "merge" THEN "provider_name" ELSE "provider_id"

\* The relation a script persists: merged_df, or the projected final_df.
Written(s, merged, final) == IF s = "merge" THEN merged ELSE final

\* Provider diagnostics, the left join and the merge-quality check.
MergeStep ==
    /\ pc = "merge"
    /\ \E ok \in BOOLEAN :
          IF ok
          THEN LET m == Merge(claims_df, policy_df, "insurance_provider", "provider_name")
                   n == IsnaSum(m, QualityColumn(script))
               IN  /\ merged_df' = m
                   /\ reported' = n
                   /\ printed' = printed \cup
                         {IF n > 0 THEN "warn_unmatched" ELSE "all_matched"}
                   /\ done' = done \cup {"merge"}
                   /\ pc' = StageAfter(script, "merge")
                   /\ UNCHANGED <<failed, outcome, conn, closeErr, store>>
          ELSE /\ UNCHANGED <<merged_df, reported>>
               /\ Raise("merge", store)
    /\ UNCHANGED <<script, run, indexes, files, claims_df, policy_df,
                   final_df, store0, files0, prevOut>>

\* final_df = combined_df[final_columns].copy(); final_df["policy_id"] = ...
Project ==
    /\ pc = "project"
    /\ IF MissingColumns(merged_df, final_columns) = {}
       THEN /\ final_df' = AddPolicyId(Select(merged_df, final_columns))
            /\ AdvanceKeepStore("project")
       ELSE /\ final_df' = final_df
            /\ Raise("project", store)
    /\ UNCHANGED <<script, run, indexes, files, claims_df, policy_df,
                   merged_df, reported, store0, files0, prevOut>>

\* <relation>.to_sql(<output table>, conn, if_exists="replace", index=False)
SaveTable ==
    /\ pc = "save_table"
    /\ LET df == Written(script, merged_df, final_df) IN
       \E ok \in BOOLEAN :
          IF ok
          THEN /\ store' = ToSql(store, OutTable(script), df)
               /\ indexes' = {}
               /\ Advance("save_table")
          ELSE \E st \in ToSqlFailed(store, OutTable(script), df) :
                  /\ indexes' = IF st = store THEN indexes ELSE {}
                  /\ Raise("save_table", st)
    /\ UNCHANGED <<script, run, files, claims_df, policy_df, merged_df,
                   final_df, reported, store0, files0, prevOut>>

\* The CREATE INDEX IF NOT EXISTS statements and conn.commit().  Statement k
\* raises (k past the last one: none does); a statement on a column the
\* table lacks always raises.
CreateIndexes ==
    /\ pc = "create_indexes"
    /\ LET cmds == IndexColumns(script)
           tcols == Range(store[OutTable(script)].cols)
       IN  \E k \in 1..(Len(cmds) + 1) :
              /\ \A i \in 1..(k - 1) : cmds[i] \in tcols
              /\ indexes' = indexes \cup {cmds[i] : i \in 1..(k - 1)}
              /\ IF k = Len(cmds) + 1
                 THEN AdvanceKeepStore("create_indexes")
                 ELSE Raise("create_indexes", store)
    /\ UNCHANGED <<script, run, files, claims_df, policy_df, merged_df,
                   final_df, reported, store0, files0, prevOut>>

\* <relation>.to_csv(csv_path, index=False)
SaveCsv ==
    /\ pc = "save_csv"
    /\ LET df == Written(script, merged_df, final_df)
           name == CsvName(script, run)
       IN  \E ok \in BOOLEAN :
              IF ok
              THEN files' = ToCsv(files, name, df) /\ AdvanceKeepStore("save_csv")
              ELSE files' \in ToCsvFailed(files, name, df) /\ Raise("save_csv", store)
    /\ UNCHANGED <<script, run, indexes, claims_df, policy_df, merged_df,
                   final_df, reported, store0, files0, prevOut>>

\* The summary statistics block.
Summary ==
    /\ pc = "summary"
    /\ \E ok \in BOOLEAN :
          IF ok THEN AdvanceKeepStore("summary") ELSE Raise("summary", store)
    /\ UNCHANGED <<script, run, indexes, files, claims_df, policy_df,
                   merged_df, final_df, reported, store0, files0, prevOut>>

\* conn.close() on the normal path, then the completion message.
Close ==
    /\ pc = "close"
    /\ conn' = "closed"
    /\ printed' = printed \cup {"completed"}
    /\ outcome' = "success"
    /\ done' = done \cup {"close"}
    /\ pc' = "done"
    /\ UNCHANGED <<script, run, store, indexes, files, closeErr, claims_df,
                   policy_df, merged_df, final_df, reported, failed, store0,
                   files0, prevOut>>

Next ==
    \/ StartRun
    \/ Connect
    \/ LoadClaims
    \/ LoadPolicy
    \/ MergeStep
    \/ Project
    \/ SaveTable
    \/ CreateIndexes
    \/ SaveCsv
    \/ Summary
    \/ Close

Spec == Init /\ [][Next]_vars

\* ============================================================== properties
\* Equality of provider names as the specification defines the join key:
\* an exact match of two strings.  A null is no provider name and matches
\* nothing.
ProviderEq(a, b) == a # NULL /\ b # NULL /\ a = b

\* Number of policy rows whose provider_name is the provider name p.
MatchCount(p, policy) ==
    Cardinality({j \in DOMAIN policy.rows :
                    ProviderEq(p, policy.rows[j]["provider_name"])})

\* Joined rows whose insurance_provider is the provider_name of no policy row.
UnmatchedRows(joined, policy) ==
    {k \in DOMAIN joined.rows :
        MatchCount(joined.rows[k]["insurance_provider"], policy) = 0}

Joined == "merge" \in done

\* C1: the left join yields at least as many rows as the claims relation,
\* and exactly as many if and only if no provider name occurring in the
\* claims matches more than one policy row.
C1_RowCount ==
    Joined =>
        /\ Len(merged_df.rows) >= Len(claims_df.rows)
        /\ (Len(merged_df.rows) = Len(claims_df.rows)
              <=> \A i \in DOMAIN claims_df.rows :
                     MatchCount(claims_df.rows[i]["insurance_provider"], policy_df) <= 1)

\* C2: a joined row whose insurance_provider equals the provider_name of no
\* policy row is null in every policy-sourced column, nulls on either side
\* included.
C2_UnmatchedNull ==
    Joined =>
        \A k \in UnmatchedRows(merged_df, policy_df) :
            \A c \in Range(policy_df.cols) : merged_df.rows[k][c] = NULL

\* C3: the projection outputs the requested columns that the joined relation
\* has, in the requested order; a missing column is dropped without an error
\* and the run goes on to the table write.
RECURSIVE Keep(_, _)
Keep(columns, df) ==
    IF columns = <<>> THEN <<>>
    ELSE (IF Head(columns) \in Range(df.cols) THEN <<Head(columns)>> ELSE <<>>)
         \o Keep(Tail(columns), df)

C3_ProjectionDrops ==
    ("project" \in done \cup failed) =>
        /\ "project" \in done
        /\ "traceback" \notin printed
        /\ Keep(final_df.cols, [cols |-> final_columns]) = Keep(final_columns, merged_df)

\* C4: when a run has ended, a connection that was opened is closed, and
\* close was not attempted on a connection that was never opened.
C4_ConnectionClosed ==
    pc = "done" => conn # "open" /\ ~closeErr

\* C5: a failure of the summary statistics after the table and the file were
\* written still ends the run as successful.
C5_SummaryAdvisory ==
    (pc = "done" /\ "summary" \in failed /\ {"save_table", "save_csv"} \subseteq done)
        => outcome = "success" /\ "completed" \in printed

\* C6: a failure in any stage other than the summary statistics is caught,
\* reported, and ends the run as failed: no later stage runs and the
\* completion message is never printed.
C6_FailureAborts ==
    (failed \cap {"load_claims", "load_policy", "merge", "project", "save_table",
                 "create_indexes", "save_csv"} # {}) =>
        /\ pc = "done"
        /\ outcome = "failed"
        /\ "error" \in printed
        /\ "completed" \notin printed

\* C7: with the claims table absent, the run never creates or replaces the
\* output table and writes no file, and it ends with a reported error and
\* without success.
C7_MissingClaimsNoOutput ==
    (run > 0 /\ ClaimsTable(script) \notin DOMAIN store0) =>
        /\ store = store0
        /\ files = files0
        /\ pc = "done" =>
              /\ outcome # "success"
              /\ "completed" \notin printed
              /\ printed \cap {"error", "db_not_found"} # {}
        /\ "load_claims" \in failed => outcome = "failed"

C7_Witness ==
    /\ pc = "done"
    /\ "load_claims" \in failed
    /\ OutTable(script) \in DOMAIN store

\* C8: once the table write succeeded, a failing file write leaves the output
\* table holding the full relation of the run; and a failing table write
\* leaves the files as they were.
C8_SinksIndependent ==
    /\ ("save_table" \in done /\ "save_csv" \in failed) =>
          /\ OutTable(script) \in DOMAIN store
          /\ store[OutTable(script)] = (IF script = "merge" THEN merged_df ELSE final_df)
    /\ "save_table" \in failed => files = files0

C8_Witness ==
    /\ pc = "done"
    /\ "save_table" \in done
    /\ "save_csv" \in failed
    /\ OutTable(script) \in DOMAIN store0
    /\ Len(store[OutTable(script)].rows) > 0

\* C9: a second run on the same input tables leaves the output table with the
\* columns and rows the first run left.
C9_Idempotent ==
    (prevOut # <<>> /\ "save_table" \in done) =>
        /\ store[OutTable(script)] = prevOut[1]
        /\ store[ClaimsTable(script)] = store0[ClaimsTable(script)]
        /\ store[PolicyTable(script)] = store0[PolicyTable(script)]

C9_Witness ==
    /\ pc = "done"
    /\ prevOut # <<>>
    /\ "save_table" \in done
    /\ Len(prevOut[1].rows) > Len(claims_df.rows)

\* Joined rows that the join itself paired with no policy row.
UnpairedRows(joined, policy) ==
    {k \in DOMAIN joined.rows :
        \A j \in DOMAIN policy.rows :
            ~KeyEq(joined.rows[k]["insurance_provider"], policy.rows[j]["provider_name"])}

\* C10: the merge-quality check prints the number of joined rows whose
\* insurance_provider matches no policy row, and prints that all claims
\* matched exactly when that number is zero.  The formula accepts the count
\* under either reading of "matches": the exact string match of the
\* specification, or the pairing the join performed.
C10_QualityCount ==
    Joined =>
        \E n \in {Cardinality(UnmatchedRows(merged_df, policy_df)),
                  Cardinality(UnpairedRows(merged_df, policy_df))} :
            /\ reported = n
            /\ "all_matched" \in printed <=> n = 0

====
